---- MODULE Spec2Model ----
(***************************************************************************)
(* Voice-activity-gated audio chunking of the pagician extension:          *)
(* AudioCapture (lib/audio-capture.js, the VAD class) driven by            *)
(* VoiceController (content-script.js), with the browser objects they use  *)
(* (MediaRecorder, interval timers, AudioContext) as far as the code       *)
(* depends on them.                                                        *)
(*                                                                         *)
(* Times are milliseconds.  RMS readings are in units of 0.001.            *)
(***************************************************************************)
EXTENDS Integers, Sequences, FiniteSets, TLC

VARIABLES
  ac,     \* the AudioCapture instance, the browser objects it holds, history
  vc,     \* the VoiceController instance fields
  calls,  \* the invocations of VoiceController.startStreamingMode
  cfg     \* the VAD tuning constants of the AudioCapture instance

vars == <<ac, vc, calls, cfg>>

----------------------------------------------------------------------------
(* Bounds of the exploration *)

MaxCalls == 2      \* invocations of VoiceController.startStreamingMode
MaxRecs == 3       \* recordings started (MediaRecorder.start calls)
MaxTicks == 8      \* poll ticks of the interval timer
RaceTicks == 2     \* poll ticks explored with overlapping requests
ExtraTicksLong == 4
\* ticks of a scripted scenario: 16000 ms of polling at the shipped interval
ScenarioTicks == 320
\* ticks followed after an enumerated mid-session state
ExtraTicksTable == 2
\* ticks of a session whose emitted segment is processed
BlobTicks == 40
\* the last tick that may read speech in a session that falls silent, and
\* the ticks followed after the trailing silence has elapsed
QuietFrom == 4
ExtraTicksQuiet == 2
\* the fixed-interval loop: recordings started, timers created
MaxFixedRecs == 3
MaxTimers == 6 \* poll ticks explored beyond the max-duration cap

----------------------------------------------------------------------------
(* VAD tuning constants (AudioCapture constructor) *)

SILENCE_THRESHOLD == 10
TRAILING_SILENCE_MS == 1500
MAX_CHUNK_DURATION_MS == 15000
MIN_CHUNK_DURATION_MS == 500
VAD_POLL_INTERVAL_MS == 50

\* null for the two timestamps; JavaScript treats null as falsy and as 0 in
\* arithmetic, and Date.now() is never 0
Null == 0

\* the shipped fields with a trailing silence one poll shorter
ShippedShortTrailing ==
  [SILENCE_THRESHOLD |-> SILENCE_THRESHOLD,
   TRAILING_SILENCE_MS |-> TRAILING_SILENCE_MS - VAD_POLL_INTERVAL_MS,
   MAX_CHUNK_DURATION_MS |-> MAX_CHUNK_DURATION_MS,
   MIN_CHUNK_DURATION_MS |-> MIN_CHUNK_DURATION_MS,
   VAD_POLL_INTERVAL_MS |-> VAD_POLL_INTERVAL_MS]

\* the shipped fields with a cap one poll longer
ShippedLateCap ==
  [SILENCE_THRESHOLD |-> SILENCE_THRESHOLD,
   TRAILING_SILENCE_MS |-> TRAILING_SILENCE_MS,
   MAX_CHUNK_DURATION_MS |-> MAX_CHUNK_DURATION_MS + VAD_POLL_INTERVAL_MS,
   MIN_CHUNK_DURATION_MS |-> MIN_CHUNK_DURATION_MS,
   VAD_POLL_INTERVAL_MS |-> VAD_POLL_INTERVAL_MS]

\* the shipped fields with a minimum duration that exceeds one tick of
\* speech plus the trailing silence
ShippedLongMin ==
  [SILENCE_THRESHOLD |-> SILENCE_THRESHOLD,
   TRAILING_SILENCE_MS |-> TRAILING_SILENCE_MS,
   MAX_CHUNK_DURATION_MS |-> MAX_CHUNK_DURATION_MS,
   MIN_CHUNK_DURATION_MS |-> TRAILING_SILENCE_MS + 2 * VAD_POLL_INTERVAL_MS,
   VAD_POLL_INTERVAL_MS |-> VAD_POLL_INTERVAL_MS]

Shipped ==
  [SILENCE_THRESHOLD |-> SILENCE_THRESHOLD,
   TRAILING_SILENCE_MS |-> TRAILING_SILENCE_MS,
   MAX_CHUNK_DURATION_MS |-> MAX_CHUNK_DURATION_MS,
   MIN_CHUNK_DURATION_MS |-> MIN_CHUNK_DURATION_MS,
   VAD_POLL_INTERVAL_MS |-> VAD_POLL_INTERVAL_MS]

\* The same fields tuned so that the minimum duration exceeds the trailing
\* silence (the only setting in which the discard branch can be taken) and
\* the cap is met within a few ticks.
Tuned ==
  [Shipped EXCEPT !.TRAILING_SILENCE_MS = 2 * VAD_POLL_INTERVAL_MS,
                  !.MIN_CHUNK_DURATION_MS = 4 * VAD_POLL_INTERVAL_MS,
                  !.MAX_CHUNK_DURATION_MS = 6 * VAD_POLL_INTERVAL_MS]

Configs == {Shipped, Tuned}

\* The tuned fields with a minimum duration equal to the trailing silence.
Balanced ==
  [Tuned EXCEPT !.MIN_CHUNK_DURATION_MS = Tuned.TRAILING_SILENCE_MS]

\* readings of getCurrentRMS: silence, just below / at the threshold, speech
RmsLevels == {0, SILENCE_THRESHOLD - 1, SILENCE_THRESHOLD, 5 * SILENCE_THRESHOLD}

----------------------------------------------------------------------------
(* MediaRecorder *)

\* the completion task placed ahead of the tasks already queued
RecorderStopFirst(s, end) ==
  [s EXCEPT !.mediaRecorder = "inactive",
            !.tasks = <<[id |-> s.recSeq, end |-> end,
                         short |-> s.clock - s.recStartedAt
                                     < cfg.MIN_CHUNK_DURATION_MS]>> \o @,
            !.recStartedAt = Null]

\* MediaRecorder.stop() on a recording encoder, or its failure: the state
\* becomes inactive at once and the dataavailable + stop events are queued
\* as one later task.  end, short are history: how the recording was ended
\* and whether the encoder ran for less than MIN_CHUNK_DURATION_MS.
RecorderStop(s, end) ==
  [s EXCEPT !.mediaRecorder = "inactive",
            !.tasks = Append(@, [id |-> s.recSeq, end |-> end,
                                 short |-> s.clock - s.recStartedAt
                                             < cfg.MIN_CHUNK_DURATION_MS]),
            !.recStartedAt = Null]

----------------------------------------------------------------------------
(* AudioCapture *)

\* start() issued whatever the encoder's state
startRecordingAlways(s) ==
  [s EXCEPT !.audioChunks = <<>>,
            !.mediaRecorder = "recording",
            !.isRecording = TRUE,
            !.recSeq = @ + 1,
            !.recStartedAt = s.clock,
            !.starts = @ + 1]

\* starts is history: the calls of startRecording, refused ones included
startRecording(s) ==
  IF s.mediaRecorder # "null" /\ s.mediaRecorder # "recording"
  THEN [s EXCEPT !.audioChunks = <<>>,
                 !.mediaRecorder = "recording",
                 !.isRecording = TRUE,
                 !.recSeq = @ + 1,
                 !.recStartedAt = s.clock,
                 !.starts = @ + 1]
  ELSE [s EXCEPT !.starts = @ + 1]

\* stop() issued whatever the encoder's state
stopRecordingAlways(s) ==
  [RecorderStop(s, "stop") EXCEPT !.isRecording = FALSE]

stopRecording(s) ==
  IF s.mediaRecorder # "null" /\ s.mediaRecorder = "recording"
  THEN [RecorderStop(s, "stop") EXCEPT !.isRecording = FALSE]
  ELSE s

\* history: the kind of cut taken for the recording of the current utterance
NoteCut(s, kind) ==
  IF s.recSeq > 0
  THEN [s EXCEPT !.cut[s.recSeq] = kind, !.heard = FALSE, !.quietSince = Null]
  ELSE [s EXCEPT !.heard = FALSE, !.quietSince = Null]

\* the emit that leaves recordingStartTime as it was
sendCurrentChunkKeepsStart(s) ==
  LET t == IF s.mediaRecorder # "null" /\ s.mediaRecorder = "recording"
           THEN [RecorderStop(s, "emit") EXCEPT !.isRecording = FALSE]
           ELSE s
  IN [NoteCut(t, "emit") EXCEPT !.voiceState = "SILENT",
                                !.silenceStartTime = Null]

\* the emit that leaves voiceState as it was
sendCurrentChunkKeepState(s) ==
  LET t == IF s.mediaRecorder # "null" /\ s.mediaRecorder = "recording"
           THEN [RecorderStop(s, "emit") EXCEPT !.isRecording = FALSE]
           ELSE s
  IN [NoteCut(t, "emit") EXCEPT !.silenceStartTime = Null,
                                !.recordingStartTime = Null]

sendCurrentChunk(s) ==
  LET t == IF s.mediaRecorder # "null" /\ s.mediaRecorder = "recording"
           THEN [RecorderStop(s, "emit") EXCEPT !.isRecording = FALSE]
           ELSE s
  IN [NoteCut(t, "emit") EXCEPT !.voiceState = "SILENT",
                                !.silenceStartTime = Null,
                                !.recordingStartTime = Null]

discardCurrentChunk(s) ==
  LET f == [s EXCEPT !.suppressNextBlob = TRUE]
      t == IF f.mediaRecorder # "null" /\ f.mediaRecorder = "recording"
           THEN [RecorderStop(f, "discard") EXCEPT !.isRecording = FALSE]
           ELSE f
  IN [NoteCut(t, "discard") EXCEPT !.voiceState = "SILENT",
                                   !.silenceStartTime = Null,
                                   !.recordingStartTime = Null]

\* the comparison that excludes the threshold itself
isSpeechAbove(rms) == rms > cfg.SILENCE_THRESHOLD

isSpeech(rms) == rms >= cfg.SILENCE_THRESHOLD

\* history: a tick of this session has read speech and no cut was decided
\* since (NoteCut clears it)
\* quietSince: the time of the first of the non-speech ticks read since the
\* latest speech tick of an utterance not yet cut
Hear(s, rms) ==
  [s EXCEPT !.heard = @ \/ isSpeech(rms),
            !.quietSince = IF isSpeech(rms) THEN Null
                           ELSE IF s.heard /\ @ = Null THEN s.clock
                           ELSE @]

\* the switch in which speech during TRAILING_SILENCE does not end the wait
vadSwitchKeepsWaiting(s, rms) ==
  LET now == s.clock
      speech == isSpeech(rms)
  IN   CASE s.voiceState = "SILENT" ->
              IF speech
              THEN [startRecording([s EXCEPT !.voiceState = "SPEAKING"])
                      EXCEPT !.recordingStartTime = now]
              ELSE s
         [] s.voiceState = "SPEAKING" ->
              IF ~speech
              THEN [s EXCEPT !.voiceState = "TRAILING_SILENCE",
                             !.silenceStartTime = now]
              ELSE IF s.recordingStartTime # Null
                      /\ now - s.recordingStartTime >= cfg.MAX_CHUNK_DURATION_MS
              THEN sendCurrentChunk(s)
              ELSE s
         [] s.voiceState = "TRAILING_SILENCE" ->
              IF speech
              THEN s
              ELSE IF now - s.silenceStartTime >= cfg.TRAILING_SILENCE_MS
              THEN IF now - s.recordingStartTime >= cfg.MIN_CHUNK_DURATION_MS
                   THEN sendCurrentChunk(s)
                   ELSE discardCurrentChunk(s)
              ELSE IF s.recordingStartTime # Null
                      /\ now - s.recordingStartTime >= cfg.MAX_CHUNK_DURATION_MS
              THEN sendCurrentChunk(s)
              ELSE s

\* the switch on voiceState of one poll tick; now is Date.now()
vadSwitch(s, rms) ==
  LET now == s.clock
      speech == isSpeech(rms)
  IN   CASE s.voiceState = "SILENT" ->
              IF speech
              THEN [startRecording([s EXCEPT !.voiceState = "SPEAKING"])
                      EXCEPT !.recordingStartTime = now]
              ELSE s
         [] s.voiceState = "SPEAKING" ->
              IF ~speech
              THEN [s EXCEPT !.voiceState = "TRAILING_SILENCE",
                             !.silenceStartTime = now]
              ELSE IF s.recordingStartTime # Null
                      /\ now - s.recordingStartTime >= cfg.MAX_CHUNK_DURATION_MS
              THEN sendCurrentChunk(s)
              ELSE s
         [] s.voiceState = "TRAILING_SILENCE" ->
              IF speech
              THEN [s EXCEPT !.voiceState = "SPEAKING",
                             !.silenceStartTime = Null]
              ELSE IF now - s.silenceStartTime >= cfg.TRAILING_SILENCE_MS
              THEN IF now - s.recordingStartTime >= cfg.MIN_CHUNK_DURATION_MS
                   THEN sendCurrentChunk(s)
                   ELSE discardCurrentChunk(s)
              ELSE IF s.recordingStartTime # Null
                      /\ now - s.recordingStartTime >= cfg.MAX_CHUNK_DURATION_MS
              THEN sendCurrentChunk(s)
              ELSE s

\* the tick without its entry test of streamingMode and analyserNode
vadLoopNoGuard(s, rms) == vadSwitch(Hear(s, rms), rms)

\* one poll tick
vadLoop(s, rms) ==
  IF ~s.streamingMode \/ ~s.analyserNode THEN s
  ELSE vadSwitch(Hear(s, rms), rms)

\* AudioCapture.startStreamingMode(processCallback)
startStreamingMode(s) ==
  [s EXCEPT !.streamingMode = TRUE,
            !.processCallback = TRUE,
            !.voiceState = "SILENT",
            !.silenceStartTime = Null,
            !.recordingStartTime = Null,
            !.audioContext = TRUE,
            !.contexts = @ + 1,
            !.analyserNode = TRUE,
            !.vadInterval = TRUE,
            !.timers = @ + 1,
            !.heard = FALSE,
            !.quietSince = Null]

\* startStreamingMode when the analysis graph cannot be built: `new
\* AudioContext()` throws ("context"), or createMediaStreamSource throws on
\* the context just assigned ("source"); the statements before the throw
\* have run, the rest (analyserNode, setInterval) has not
GraphOutcomes == {"ok", "context", "source"}

startStreamingModeThrows(s, at) ==
  LET a == [s EXCEPT !.streamingMode = TRUE,
                     !.processCallback = TRUE,
                     !.voiceState = "SILENT",
                     !.silenceStartTime = Null,
                     !.recordingStartTime = Null,
                     !.heard = FALSE,
                     !.quietSince = Null]
  IN IF at = "context" THEN a
     ELSE [a EXCEPT !.audioContext = TRUE, !.contexts = @ + 1]

\* AudioCapture.stopStreamingMode()
stopStreamingMode(s) ==
  LET a == [s EXCEPT !.streamingMode = FALSE]
      b == IF a.vadInterval
           THEN [a EXCEPT !.vadInterval = FALSE, !.timers = @ - 1]
           ELSE a
      c == IF b.audioContext
           THEN [b EXCEPT !.audioContext = FALSE, !.analyserNode = FALSE,
                          !.contexts = @ - 1]
           ELSE b
  IN [stopRecording(c) EXCEPT !.voiceState = "SILENT",
                              !.silenceStartTime = Null,
                              !.recordingStartTime = Null,
                              !.heard = FALSE,
                              !.quietSince = Null]

\* initializeRecording() when getUserMedia resolves: a new stream and a new
\* MediaRecorder replace the fields; setupEventHandlers binds the handlers
initializeRecordingGranted(s) ==
  [s EXCEPT !.micStream = TRUE,
            !.mediaRecorder = "inactive",
            !.recStartedAt = Null]

\* the completion handler that clears the buffer only after a delivery
onstopKeepsSuppressed(s) ==
  LET e == Head(s.tasks)
      d == [s EXCEPT !.tasks = Tail(@),
                     !.audioChunks = Append(@, e.id)]
      blob == d.audioChunks
  IN IF d.suppressNextBlob
     THEN [d EXCEPT !.suppressNextBlob = FALSE,
                    !.suppressed = @ \cup {e.id}]
     ELSE IF d.processCallback
     THEN [d EXCEPT !.delivered =
              Append(@, [id |-> e.id, end |-> e.end, short |-> e.short,
                         blob |-> blob, streaming |-> d.streamingMode]),
                    !.audioChunks = <<>>]
     ELSE [d EXCEPT !.audioChunks = <<>>]

\* the task queued by the encoder: dataavailable (the recording's data, one
\* fragment, no timeslice is used) and then stop
onstop(s) ==
  LET e == Head(s.tasks)
      d == [s EXCEPT !.tasks = Tail(@),
                     !.audioChunks = Append(@, e.id)]
      blob == d.audioChunks
      r == IF d.suppressNextBlob
           THEN [d EXCEPT !.suppressNextBlob = FALSE,
                          !.suppressed = @ \cup {e.id}]
           ELSE IF d.processCallback
           THEN [d EXCEPT !.delivered =
                    Append(@, [id |-> e.id, end |-> e.end, short |-> e.short,
                               blob |-> blob, streaming |-> d.streamingMode])]
           ELSE d
  IN [r EXCEPT !.audioChunks = <<>>]

\* mediaRecorder.onerror only logs; the encoder itself becomes inactive and
\* queues its final dataavailable + stop task
onerror(s) == RecorderStop(s, "error")

----------------------------------------------------------------------------
(* Initial state: the constructors *)

InitAC ==
  [mediaRecorder |-> "null", audioChunks |-> <<>>, isRecording |-> FALSE,
   streamingMode |-> FALSE, processCallback |-> FALSE,
   suppressNextBlob |-> FALSE,
   micStream |-> FALSE, audioContext |-> FALSE, analyserNode |-> FALSE,
   vadInterval |-> FALSE,
   voiceState |-> "SILENT", silenceStartTime |-> Null,
   recordingStartTime |-> Null,
   \* browser
   clock |-> 0, tasks |-> <<>>, timers |-> 0, contexts |-> 0,
   \* history
   recSeq |-> 0, recStartedAt |-> Null,
   cut |-> [i \in 1..MaxRecs |-> "none"],
   suppressed |-> {}, delivered |-> <<>>, heard |-> FALSE,
   starts |-> 0, quietSince |-> Null]

\* isActive, currentElement: the ElementDetector (currentElement is whether
\* an element is hovered); blobs: the processAudioBlob calls suspended at an
\* await; executed is history: the calls of domManipulator.executeCommand
InitVC ==
  [isStreamingMode |-> FALSE, audioInitialized |-> FALSE,
   isActive |-> FALSE, currentElement |-> FALSE,
   blobs |-> {}, executed |-> {}]

NoCall ==
  [pc |-> "unused", via |-> "none", resp |-> "none", outcome |-> "none",
   overtakenBy |-> "none"]

Init ==
  /\ cfg \in Configs
  /\ ac = InitAC
  /\ vc = InitVC
  /\ calls = [c \in 1..MaxCalls |-> NoCall]

----------------------------------------------------------------------------
(* VoiceController.startStreamingMode, one action per stretch between awaits *)

Finish(c, outcome) ==
  [calls EXCEPT ![c].pc = "done",
                ![c].outcome = outcome,
                \* 'startStreaming': the promise resolved, sendResponse success
                ![c].resp = IF calls[c].via = "startStreaming"
                            THEN "success" ELSE calls[c].resp]

\* the promise of startStreamingMode rejected: 'startStreaming' answers
\* success: false from .catch, toggleStreamingMode ignores the rejection
Fail(c) ==
  [calls EXCEPT ![c].pc = "done",
                ![c].outcome = "failed",
                ![c].resp = IF calls[c].via = "startStreaming"
                            THEN "failure" ELSE calls[c].resp]

\* the last stretch: isStreamingMode = true, audioCapture.startStreamingMode,
\* which builds the analysis graph (graph "ok") or throws while building it
Activate(c) ==
  \E graph \in GraphOutcomes :
    /\ vc' = [vc EXCEPT !.isStreamingMode = TRUE, !.isActive = TRUE]
    /\ ac' = IF graph = "ok" THEN startStreamingMode(ac)
             ELSE startStreamingModeThrows(ac, graph)
    /\ calls' = IF graph = "ok" THEN Finish(c, "started") ELSE Fail(c)

\* A request may find an earlier startStreamingMode still suspended at an
\* await (overlap), or requests arrive only between calls.
InFlight == {c \in 1..MaxCalls : calls[c].pc \notin {"unused", "done"}}

\* history: the calls suspended at an await when a stop or a toggle request
\* arrives are marked with that request
Overtaken(by) ==
  [c \in 1..MaxCalls |->
     IF c \in InFlight /\ calls[c].overtakenBy = "none"
     THEN [calls[c] EXCEPT !.overtakenBy = by] ELSE calls[c]]

\* entry of startStreamingMode up to `await sendMessage(canMakeRequest)`;
\* resp is the response already sent when the call is made
Enter(c, via, resp, overlap) ==
  /\ calls[c].pc = "unused"
  /\ \A b \in 1..MaxCalls : b < c => calls[b].pc # "unused"
  /\ overlap \/ InFlight = {}
  /\ IF vc.isStreamingMode
     THEN calls' = [calls EXCEPT ![c] = [pc |-> "done", via |-> via,
                                         resp |-> "success", outcome |-> "noop",
                                         overtakenBy |-> "none"]]
     ELSE calls' = [calls EXCEPT ![c] = [pc |-> "canMake", via |-> via,
                                         resp |-> resp, outcome |-> "none",
                                         overtakenBy |-> "none"]]
  /\ UNCHANGED <<ac, vc, cfg>>

\* chrome.runtime.onMessage 'startStreaming'
StartStreamingMsg(overlap) ==
  \E c \in 1..MaxCalls : Enter(c, "startStreaming", "none", overlap)

\* ElementDetector.deactivate()
deactivate(v) == [v EXCEPT !.isActive = FALSE, !.currentElement = FALSE]

\* history: the processAudioBlob calls that a stop finds suspended
MarkStale(v) ==
  [v EXCEPT !.blobs = {[b EXCEPT !.stale = TRUE] : b \in @}]

\* VoiceController.stopStreamingMode
StopController ==
  /\ vc' = MarkStale(deactivate([vc EXCEPT !.isStreamingMode = FALSE]))
  /\ ac' = stopStreamingMode(ac)
  /\ UNCHANGED <<calls, cfg>>

\* chrome.runtime.onMessage 'stopStreaming', and trackUsage at the limit
StopStreamingMsg(overlap) ==
  /\ overlap \/ InFlight = {}
  /\ IF ~vc.isStreamingMode THEN UNCHANGED vars ELSE StopController

\* chrome.runtime.onMessage 'toggleStreaming': the response is sent at once
ToggleStreamingMsg(overlap) ==
  IF vc.isStreamingMode
  THEN (overlap \/ InFlight = {}) /\ StopController
  ELSE \E c \in 1..MaxCalls : Enter(c, "toggleStreaming", "success", overlap)

\* 'stopStreaming' while a start is suspended at an await and streaming is
\* not yet active: stopStreamingMode returns at its first test; the suspended
\* calls are marked
StopWhileStarting ==
  /\ InFlight # {}
  /\ ~vc.isStreamingMode
  /\ calls' = Overtaken("stop")
  /\ UNCHANGED <<ac, vc, cfg>>

\* 'toggleStreaming' while a start is suspended at an await and streaming is
\* not yet active: toggleStreamingMode calls startStreamingMode again; the
\* suspended calls are marked
ToggleWhileStarting ==
  /\ InFlight # {}
  /\ ~vc.isStreamingMode
  /\ \E c \in 1..MaxCalls :
       /\ calls[c].pc = "unused"
       /\ \A b \in 1..MaxCalls : b < c => calls[b].pc # "unused"
       /\ calls' = [Overtaken("toggle")
                      EXCEPT ![c] = [pc |-> "canMake", via |-> "toggleStreaming",
                                     resp |-> "success", outcome |-> "none",
                                     overtakenBy |-> "none"]]
  /\ UNCHANGED <<ac, vc, cfg>>

\* canMakeRequest answered; then the apiKey check (a key is configured, the
\* listeners exist only then) and requestAudioPermissions up to its await
CanMakeRequestReply(c, canMakeRequest) ==
  /\ calls[c].pc = "canMake"
  /\ IF ~canMakeRequest
     THEN calls' = Finish(c, "blocked") /\ UNCHANGED <<ac, vc>>
     ELSE IF vc.audioInitialized
     THEN Activate(c)
     ELSE calls' = [calls EXCEPT ![c].pc = "perm"] /\ UNCHANGED <<ac, vc>>
  /\ UNCHANGED cfg

\* the refusal does not return: the call goes on to activate streaming
PermissionReplyNoReturn(c, granted) ==
  /\ calls[c].pc = "perm"
  /\ IF granted
     THEN /\ ac' = initializeRecordingGranted(ac)
          /\ vc' = [vc EXCEPT !.audioInitialized = TRUE]
          /\ calls' = [calls EXCEPT ![c].pc = "store"]
     ELSE /\ vc' = [vc EXCEPT !.isStreamingMode = TRUE, !.isActive = TRUE]
          /\ ac' = startStreamingMode(ac)
          /\ calls' = Finish(c, "denied")
  /\ UNCHANGED cfg

\* initializeRecording settled: getUserMedia granted or refused
PermissionReply(c, granted) ==
  /\ calls[c].pc = "perm"
  /\ IF granted
     THEN /\ ac' = initializeRecordingGranted(ac)
          /\ vc' = [vc EXCEPT !.audioInitialized = TRUE]
          /\ calls' = [calls EXCEPT ![c].pc = "store"]
     ELSE /\ calls' = Finish(c, "denied")
          /\ UNCHANGED <<ac, vc>>
  /\ UNCHANGED cfg

\* chrome.storage.local.set('granted') settled: requestAudioPermissions
\* returns true and startStreamingMode runs to its end
StorageSetReply(c) ==
  /\ calls[c].pc = "store"
  /\ Activate(c)
  /\ UNCHANGED cfg

----------------------------------------------------------------------------
(* Timers and encoder events *)

\* readings that do not start a recording beyond the bound on recordings
Allowed(levels) ==
  IF ac.recSeq >= MaxRecs /\ ac.voiceState = "SILENT"
  THEN {r \in levels : ~isSpeech(r)} ELSE levels

\* the interval timer of vadInterval fires VAD_POLL_INTERVAL_MS after the
\* tick before; ticks are explored up to tick number maxTicks
VadTick(levels, maxTicks) ==
  /\ ac.vadInterval
  /\ ac.clock + cfg.VAD_POLL_INTERVAL_MS <= maxTicks * cfg.VAD_POLL_INTERVAL_MS
  /\ \E rms \in Allowed(levels) :
       ac' = vadLoop([ac EXCEPT !.clock = @ + cfg.VAD_POLL_INTERVAL_MS], rms)
  /\ UNCHANGED <<vc, calls, cfg>>

\* an interval timer whose handle was overwritten by a later setInterval
\* (never cleared) fires, in the same millisecond as the last tick
OrphanTick ==
  /\ ac.timers > (IF ac.vadInterval THEN 1 ELSE 0)
  /\ ac.clock > 0
  /\ \E rms \in Allowed(RmsLevels) : ac' = vadLoop(ac, rms)
  /\ UNCHANGED <<vc, calls, cfg>>

\* the encoder's queued dataavailable + stop task runs
\* processAudioBlob up to `await this.detectSilence(audioBlob)`
processAudioBlob(v, id) ==
  IF ~v.isStreamingMode \/ ~v.currentElement THEN v
  ELSE [v EXCEPT !.blobs = @ \cup {[id |-> id, pc |-> "detectSilence",
                                     stale |-> FALSE]}]

RecorderStopped ==
  /\ ac.tasks # <<>>
  /\ ac' = onstop(ac)
  /\ vc' = IF Len(onstop(ac).delivered) > Len(ac.delivered)
           THEN processAudioBlob(vc, Head(ac.tasks).id)
           ELSE vc
  /\ UNCHANGED <<calls, cfg>>

\* detectSilence settled
DetectSilenceReply(isSilent) ==
  /\ \E b \in vc.blobs :
       /\ b.pc = "detectSilence"
       /\ vc' = [vc EXCEPT !.blobs =
                   IF isSilent THEN @ \ {b}
                   ELSE (@ \ {b}) \cup {[b EXCEPT !.pc = "transcribeAudio"]}]
  /\ UNCHANGED <<ac, calls, cfg>>

\* transcribeAudio settled: a usable transcript (then getElementContext and
\* the call of processCommand), or a short or empty one, or a rejection
TranscribeAudioReply(usable) ==
  /\ \E b \in vc.blobs :
       /\ b.pc = "transcribeAudio"
       /\ vc' = [vc EXCEPT !.blobs =
                   IF usable
                   THEN (@ \ {b}) \cup {[b EXCEPT !.pc = "processCommand"]}
                   ELSE @ \ {b}]
  /\ UNCHANGED <<ac, calls, cfg>>

\* processCommand settled: a command above its confidence threshold is
\* handed to domManipulator.executeCommand with the element hovered now
ProcessCommandReply(confident) ==
  /\ \E b \in vc.blobs :
       /\ b.pc = "processCommand"
       /\ vc' = [vc EXCEPT !.blobs = @ \ {b},
                           !.executed =
                              IF confident
                              THEN @ \cup {[element |-> vc.currentElement,
                                            stale |-> b.stale]}
                              ELSE @]
  /\ UNCHANGED <<ac, calls, cfg>>

\* ElementDetector.handleMouseMove over an element
MouseMove ==
  /\ vc.isActive /\ ~vc.currentElement
  /\ vc' = [vc EXCEPT !.currentElement = TRUE]
  /\ UNCHANGED <<ac, calls, cfg>>

\* ElementDetector.handleMouseOut leaving the document
MouseOut ==
  /\ vc.isActive /\ vc.currentElement
  /\ vc' = [vc EXCEPT !.currentElement = FALSE]
  /\ UNCHANGED <<ac, calls, cfg>>

\* the encoder fails while recording
RecorderError ==
  /\ ac.mediaRecorder = "recording"
  /\ ac' = onerror(ac)
  /\ UNCHANGED <<vc, calls, cfg>>

----------------------------------------------------------------------------
(* Specifications *)

Replies ==
  \/ \E c \in 1..MaxCalls, b \in BOOLEAN : CanMakeRequestReply(c, b)
  \/ \E c \in 1..MaxCalls, b \in BOOLEAN : PermissionReply(c, b)
  \/ \E c \in 1..MaxCalls : StorageSetReply(c)

\* Sessions one after the other, every reading, every encoder event
Next ==
  \/ StartStreamingMsg(FALSE)
  \/ StopStreamingMsg(FALSE)
  \/ ToggleStreamingMsg(FALSE)
  \/ Replies
  \/ VadTick(RmsLevels, MaxTicks)
  \/ RecorderStopped
  \/ RecorderError

Spec == Init /\ [][Next]_vars

\* Requests that overlap a start still in progress
NextRace ==
  \/ StartStreamingMsg(TRUE)
  \/ StopStreamingMsg(TRUE)
  \/ ToggleStreamingMsg(TRUE)
  \/ Replies
  \/ VadTick(RmsLevels, RaceTicks)
  \/ OrphanTick
  \/ RecorderStopped
  \/ RecorderError

SpecRace == Init /\ [][NextRace]_vars

\* Stop and toggle requests that arrive while a start is suspended, with the
\* suspended calls marked; otherwise requests arrive between calls
NextOvertake ==
  \/ StartStreamingMsg(FALSE)
  \/ StopStreamingMsg(TRUE)
  \/ ToggleStreamingMsg(FALSE)
  \/ StopWhileStarting
  \/ ToggleWhileStarting
  \/ Replies
  \/ VadTick(RmsLevels, RaceTicks)
  \/ RecorderStopped

SpecOvertake == Init /\ [][NextOvertake]_vars

\* One session with the shipped constants, followed past the max-duration
\* cap: speech with dropouts of a single tick (a non-speech reading only
\* while SPEAKING)
DropoutLevels ==
  IF ac.voiceState = "SPEAKING" THEN RmsLevels
  ELSE {r \in RmsLevels : isSpeech(r)}

LongTicks == MAX_CHUNK_DURATION_MS \div VAD_POLL_INTERVAL_MS + ExtraTicksLong

InitLong == Init /\ cfg = Shipped

NextLong ==
  \/ StartStreamingMsg(FALSE)
  \/ Replies
  \/ VadTick(DropoutLevels, LongTicks)
  \/ RecorderStopped

SpecLong == InitLong /\ [][NextLong]_vars

\* One session with the shipped constants and a scripted trace of readings:
\* tick k fires at k * VAD_POLL_INTERVAL_MS and reads a value that depends
\* on k only
NextTick == ac.clock \div VAD_POLL_INTERVAL_MS + 1

\* silence for ticks 1-3, 0.05 for ticks 4-6, silence afterwards
ReadingA(k) == IF k \in 4..6 THEN 5 * SILENCE_THRESHOLD ELSE 0

\* speech for exactly one tick, then silence
ReadingB(k) == IF k = 1 THEN 5 * SILENCE_THRESHOLD ELSE 0

\* speech at every tick
ReadingC(k) == 5 * SILENCE_THRESHOLD

NextScenarioA ==
  \/ StartStreamingMsg(FALSE)
  \/ Replies
  \/ VadTick({ReadingA(NextTick)}, ScenarioTicks)
  \/ RecorderStopped

NextScenarioB ==
  \/ StartStreamingMsg(FALSE)
  \/ Replies
  \/ VadTick({ReadingB(NextTick)}, ScenarioTicks)
  \/ RecorderStopped

NextScenarioC ==
  \/ StartStreamingMsg(FALSE)
  \/ Replies
  \/ VadTick({ReadingC(NextTick)}, ScenarioTicks)
  \/ RecorderStopped

\* One poll tick applied to every kind of mid-session state: each voice
\* state, with the recording and the silence begun so long ago that at the
\* next tick the elapsed times are just below, at and just above the
\* thresholds of the configuration.
TableClock == 2 * MAX_CHUNK_DURATION_MS

InSession ==
  [startStreamingMode(initializeRecordingGranted(InitAC))
     EXCEPT !.clock = TableClock]

ElapsedRecording ==
  {cfg.VAD_POLL_INTERVAL_MS,
   cfg.MIN_CHUNK_DURATION_MS - cfg.VAD_POLL_INTERVAL_MS,
   cfg.MIN_CHUNK_DURATION_MS,
   cfg.MIN_CHUNK_DURATION_MS + cfg.VAD_POLL_INTERVAL_MS,
   cfg.MAX_CHUNK_DURATION_MS - cfg.VAD_POLL_INTERVAL_MS,
   cfg.MAX_CHUNK_DURATION_MS,
   cfg.MAX_CHUNK_DURATION_MS + cfg.VAD_POLL_INTERVAL_MS}

ElapsedSilence ==
  {cfg.VAD_POLL_INTERVAL_MS,
   cfg.TRAILING_SILENCE_MS - cfg.VAD_POLL_INTERVAL_MS,
   cfg.TRAILING_SILENCE_MS,
   cfg.TRAILING_SILENCE_MS + cfg.VAD_POLL_INTERVAL_MS}

\* SPEAKING since a tick that lies e before the next tick
Speaking(e) ==
  LET at == TableClock + cfg.VAD_POLL_INTERVAL_MS - e
  IN [InSession EXCEPT !.voiceState = "SPEAKING",
                       !.mediaRecorder = "recording",
                       !.isRecording = TRUE,
                       !.recSeq = 1,
                       !.starts = 1,
                       !.recStartedAt = at,
                       !.recordingStartTime = at,
                       !.heard = TRUE,
                       !.quietSince = Null]

\* TRAILING_SILENCE since a tick that lies d before the next tick
Trailing(e, d) ==
  [Speaking(e) EXCEPT !.voiceState = "TRAILING_SILENCE",
                      !.silenceStartTime =
                         TableClock + cfg.VAD_POLL_INTERVAL_MS - d,
                      !.quietSince =
                         TableClock + cfg.VAD_POLL_INTERVAL_MS - d]

InitTable ==
  /\ cfg \in Configs
  /\ vc = [InitVC EXCEPT !.isStreamingMode = TRUE,
                         !.audioInitialized = TRUE,
                         !.isActive = TRUE]
  /\ calls = [c \in 1..MaxCalls |->
                IF c = 1
                THEN [pc |-> "done", via |-> "startStreaming",
                      resp |-> "success", outcome |-> "started",
                      overtakenBy |-> "none"]
                ELSE NoCall]
  /\ ac \in {InSession}
            \cup {Speaking(e) : e \in ElapsedRecording}
            \cup {Trailing(p[1], p[2]) :
                    p \in {q \in ElapsedRecording \X ElapsedSilence :
                             q[2] < q[1]}}

TableTicks == TableClock \div VAD_POLL_INTERVAL_MS + ExtraTicksTable

NextTable ==
  \/ VadTick(RmsLevels, TableTicks)
  \/ RecorderStopped

SpecTable == InitTable /\ [][NextTable]_vars

SpecScenarioA == InitLong /\ [][NextScenarioA]_vars
SpecScenarioB == InitLong /\ [][NextScenarioB]_vars
SpecScenarioC == InitLong /\ [][NextScenarioC]_vars

\* A session that is not stopped and falls silent: any reading up to tick
\* QuietFrom, non-speech readings afterwards, for longer than the trailing
\* silence; the interval timer keeps firing (weak fairness of the tick)
QuietLevels ==
  IF NextTick <= QuietFrom THEN RmsLevels
  ELSE {r \in RmsLevels : ~isSpeech(r)}

QuietTicks ==
  QuietFrom + TRAILING_SILENCE_MS \div VAD_POLL_INTERVAL_MS + ExtraTicksQuiet

NextQuiet ==
  \/ StartStreamingMsg(FALSE)
  \/ Replies
  \/ VadTick(QuietLevels, QuietTicks)
  \/ RecorderStopped
  \/ RecorderError

InitQuiet ==
  /\ cfg \in Configs \cup {Balanced}
  /\ ac = InitAC
  /\ vc = InitVC
  /\ calls = [c \in 1..MaxCalls |-> NoCall]

SpecQuiet ==
  InitQuiet /\ [][NextQuiet]_vars /\ WF_vars(VadTick(QuietLevels, QuietTicks))

\* Sessions with the shipped constants in which a segment is emitted (the
\* readings of scenario A), an element is hovered and the segment is
\* processed while stop and start requests arrive
NextBlob ==
  \/ StartStreamingMsg(FALSE)
  \/ StopStreamingMsg(FALSE)
  \/ Replies
  \/ VadTick({ReadingA(NextTick)}, BlobTicks)
  \/ RecorderStopped
  \/ MouseMove
  \/ MouseOut
  \/ \E b \in BOOLEAN : DetectSilenceReply(b)
  \/ \E b \in BOOLEAN : TranscribeAudioReply(b)
  \/ \E b \in BOOLEAN : ProcessCommandReply(b)

SpecBlob == InitLong /\ [][NextBlob]_vars

----------------------------------------------------------------------------
(* The fixed-interval version of AudioCapture (the first class of          *)
(* lib/audio-capture.js): a recording is cut every 2000 ms by a chain of   *)
(* setTimeout callbacks.  In the specification SpecFixed the variable ac   *)
(* holds an instance of this version; vc, calls and cfg are not used.      *)

\* the delay of the cycle timer and of the restart timer
CYCLE_MS == 2000
RESTART_DELAY_MS == 100

\* the grain of time: half of the restart delay, so that there is a moment
\* strictly inside the restart window
TimeStep == RESTART_DELAY_MS \div 2

\* setTimeout: timer ids are handed out in sequence; left is the time
\* until the timer is due.  chain is history: the session (the call of
\* startStreamingMode) whose chain of callbacks the timer belongs to.
setTimeout(s, kind, delay, chain) ==
  [s EXCEPT !.timers = @ \cup {[id |-> s.nextId, kind |-> kind,
                                 left |-> delay, chain |-> chain]},
            !.nextId = @ + 1]

\* clearTimeout: no effect on a timer that has fired or was cleared
clearTimeout(s, id) ==
  [s EXCEPT !.timers = {tm \in @ : tm.id # id}]

\* MediaRecorder.stop() on a recording encoder, or its failure: inactive at
\* once, dataavailable + stop queued as one later task
RecorderStopFixed(s, end) ==
  [s EXCEPT !.mediaRecorder = "inactive",
            !.tasks = Append(@, [id |-> s.recSeq, end |-> end])]

\* recSeq is history: the recordings started
startRecordingFixed(s) ==
  IF s.mediaRecorder # "null" /\ s.mediaRecorder # "recording"
  THEN [s EXCEPT !.audioChunks = <<>>,
                 !.mediaRecorder = "recording",
                 !.isRecording = TRUE,
                 !.recSeq = @ + 1]
  ELSE s

stopRecordingFixed(s) ==
  IF s.mediaRecorder # "null" /\ s.mediaRecorder = "recording"
  THEN [RecorderStopFixed(s, "stop") EXCEPT !.isRecording = FALSE]
  ELSE s

\* arms the cycle timer and remembers its id
scheduleNextCycle(s, chain) ==
  [setTimeout(s, "cycle", CYCLE_MS, chain)
     EXCEPT !.streamingTimeout = s.nextId]

\* the callback of the restart timer (lines 91-97)
restartCallback(s, tm) ==
  LET a == [s EXCEPT !.timers = @ \ {tm}]
  IN IF a.streamingMode
     THEN scheduleNextCycle(startRecordingFixed(a), tm.chain)
     ELSE a

\* the callback of the cycle timer (lines 85-105).  mediaRecorder.stop()
\* throws InvalidStateError on an inactive encoder, which the catch block
\* answers by restarting at once.
cycleCallback(s, tm) ==
  LET a == [s EXCEPT !.timers = @ \ {tm}]
  IN IF ~a.isRecording \/ ~a.streamingMode THEN a
     ELSE IF a.mediaRecorder = "recording"
     THEN setTimeout(RecorderStopFixed(a, "cycle"), "restart",
                     RESTART_DELAY_MS, tm.chain)
     ELSE IF a.streamingMode
     THEN scheduleNextCycle(startRecordingFixed(a), tm.chain)
     ELSE a

\* session is history: the calls of startStreamingMode
startStreamingModeFixed(s) ==
  scheduleNextCycle(
    startRecordingFixed([s EXCEPT !.streamingMode = TRUE,
                                  !.processCallback = TRUE,
                                  !.session = @ + 1]),
    s.session + 1)

stopStreamingModeFixed(s) ==
  LET a == [s EXCEPT !.streamingMode = FALSE]
      b == IF a.streamingTimeout # Null
           THEN [clearTimeout(a, a.streamingTimeout)
                   EXCEPT !.streamingTimeout = Null]
           ELSE a
  IN stopRecordingFixed(b)

\* dataavailable (one fragment, the recording's data) and then stop
onstopFixed(s) ==
  LET e == Head(s.tasks)
      d == [s EXCEPT !.tasks = Tail(@),
                     !.audioChunks = Append(@, e.id)]
      r == IF d.processCallback
           THEN [d EXCEPT !.delivered = Append(@, d.audioChunks)]
           ELSE d
  IN [r EXCEPT !.audioChunks = <<>>]

InitFixedAC ==
  [mediaRecorder |-> "null", audioChunks |-> <<>>, isRecording |-> FALSE,
   streamingMode |-> FALSE, streamingTimeout |-> Null,
   processCallback |-> FALSE,
   timers |-> {}, nextId |-> 1, tasks |-> <<>>,
   recSeq |-> 0, delivered |-> <<>>, session |-> 0]

InitFixed ==
  /\ ac = InitFixedAC
  /\ vc = InitVC
  /\ calls = [c \in 1..MaxCalls |-> NoCall]
  /\ cfg = Shipped

\* the exploration stops creating recordings and timers at the bounds
FixedRoom ==
  ac.recSeq < MaxFixedRecs /\ ac.nextId <= MaxTimers

\* initializeRecording with microphone access granted
InitializeFixed ==
  /\ ac.mediaRecorder = "null"
  /\ ac' = [ac EXCEPT !.mediaRecorder = "inactive"]
  /\ UNCHANGED <<vc, calls, cfg>>

\* the controller starts a session only after initializeRecording
\* succeeded and only when it holds none
StartFixed ==
  /\ ac.mediaRecorder # "null" /\ ~ac.streamingMode
  /\ FixedRoom
  /\ ac' = startStreamingModeFixed(ac)
  /\ UNCHANGED <<vc, calls, cfg>>

StopFixed ==
  /\ ac.streamingMode
  /\ ac' = stopStreamingModeFixed(ac)
  /\ UNCHANGED <<vc, calls, cfg>>

Due == {tm \in ac.timers : tm.left <= 0}

CycleTimer ==
  /\ FixedRoom
  /\ \E tm \in Due :
       /\ tm.kind = "cycle"
       /\ ac' = cycleCallback(ac, tm)
  /\ UNCHANGED <<vc, calls, cfg>>

RestartTimer ==
  /\ FixedRoom
  /\ \E tm \in Due :
       /\ tm.kind = "restart"
       /\ ac' = restartCallback(ac, tm)
  /\ UNCHANGED <<vc, calls, cfg>>

\* time passes while no timer is due
Elapse ==
  /\ ac.timers # {} /\ Due = {}
  /\ ac' = [ac EXCEPT !.timers =
               {[tm EXCEPT !.left = @ - TimeStep] : tm \in @}]
  /\ UNCHANGED <<vc, calls, cfg>>

\* the queued completion task of the encoder runs
RecorderStoppedFixed ==
  /\ ac.tasks # <<>>
  /\ ac' = onstopFixed(ac)
  /\ UNCHANGED <<vc, calls, cfg>>

\* the encoder fails while recording; onerror only logs
RecorderErrorFixed ==
  /\ ac.mediaRecorder = "recording"
  /\ ac' = RecorderStopFixed(ac, "error")
  /\ UNCHANGED <<vc, calls, cfg>>

NextFixed ==
  \/ InitializeFixed
  \/ StartFixed
  \/ StopFixed
  \/ CycleTimer
  \/ RestartTimer
  \/ Elapse
  \/ RecorderStoppedFixed
  \/ RecorderErrorFixed

SpecFixed == InitFixed /\ [][NextFixed]_vars

----------------------------------------------------------------------------
(* Properties *)

Delivered == {ac.delivered[i] : i \in 1..Len(ac.delivered)}
Pending == {ac.tasks[i] : i \in 1..Len(ac.tasks)}
DeliveredCount(r) ==
  Cardinality({i \in 1..Len(ac.delivered) : ac.delivered[i].id = r})

\* C1: a recording that stopStreamingMode ends while it is in progress is
\* ended as a discard: its completion event does not invoke processCallback.
C1_StopDiscardsRecording ==
  cfg = Shipped => \A d \in Delivered : d.end # "stop"

\* C2: once stopStreamingMode has been called, processCallback is not invoked
\* again: every invocation happens while streaming is active.
C2_NoCallbackAfterStop ==
  cfg = Shipped => \A d \in Delivered : d.streaming

C4_ElapsedWithinCap ==
  ac.recordingStartTime # Null =>
    ac.clock - ac.recordingStartTime
      <= cfg.MAX_CHUNK_DURATION_MS + cfg.VAD_POLL_INTERVAL_MS

\* C5: no segment is delivered whose recording lasted less than
\* MIN_CHUNK_DURATION_MS when the encoder was stopped.
C5_NoShortSegmentDelivered ==
  cfg = Shipped => \A d \in Delivered : ~d.short

\* C6: there is never more than one live poll timer and one analysis graph.
C6_AtMostOneSession ==
  cfg = Shipped => ac.timers <= 1 /\ ac.contexts <= 1

C8_ErrorDropsSegmentAndResets ==
  /\ [](cfg = Shipped => \A d \in Delivered : d.end # "error")
  /\ [][(cfg = Shipped /\ ac.mediaRecorder = "recording"
         /\ Len(ac'.tasks) = Len(ac.tasks) + 1
         /\ ac'.tasks[Len(ac'.tasks)].end = "error")
        => (ac'.voiceState = "SILENT" /\ ac'.silenceStartTime = Null
            /\ ac'.recordingStartTime = Null)]_vars

\* C9: a refused microphone acquisition creates no session: the step that
\* receives the refusal changes neither the controller nor AudioCapture and
\* ends the call, the call is not resumed afterwards (no retry), and as long
\* as no call has got past the permission request to the activation
\* streaming is inactive in both objects and no poll timer or analysis graph
\* exists.
C9_DeniedCreatesNoSession ==
  /\ []((\A c \in 1..MaxCalls : calls[c].outcome \notin {"started", "failed"}) =>
          (~vc.isStreamingMode /\ ~ac.streamingMode /\ ~ac.vadInterval
           /\ ~ac.audioContext /\ ~ac.analyserNode
           /\ ac.timers = 0 /\ ac.contexts = 0))
  /\ [][\A c \in 1..MaxCalls :
          (calls[c].pc = "perm" /\ calls'[c].outcome = "denied") =>
            (ac' = ac /\ vc' = vc /\ calls'[c].pc = "done")]_vars
  /\ [][\A c \in 1..MaxCalls :
          calls[c].outcome = "denied" => calls'[c] = calls[c]]_vars

\* a start request was refused the microphone while nothing was streaming
C9_Witness ==
  \E c \in 1..MaxCalls :
    /\ calls[c].outcome = "denied"
    /\ \A b \in 1..MaxCalls : calls[b].outcome \notin {"started", "failed"}
    /\ ~vc.isStreamingMode /\ ~ac.streamingMode /\ ac.timers = 0

\* C10: the response to a 'startStreaming' request whose microphone
\* acquisition was refused never reports success.
C10_DenialReported ==
  cfg = Shipped =>
    \A c \in 1..MaxCalls :
      (calls[c].via = "startStreaming" /\ calls[c].outcome = "denied") =>
        calls[c].resp # "success"

\* C11: when the analysis graph cannot be constructed the start leaves no
\* session marked active: isStreamingMode and streamingMode are true only
\* while a poll timer runs on an analysis graph.
C11_NoActiveSessionWithoutLoop ==
  cfg = Shipped =>
    ((vc.isStreamingMode \/ ac.streamingMode) =>
       (ac.vadInterval /\ ac.analyserNode))

\* what a poll tick may change: the voice state, the timestamps and the
\* encoder (its state, its queued events, the recordings started)
LoopState(s) ==
  <<s.voiceState, s.silenceStartTime, s.recordingStartTime,
    s.mediaRecorder, s.isRecording, s.tasks, s.recSeq, s.starts,
    s.suppressNextBlob>>

\* C12: once stopStreamingMode has run the current poll timer is cancelled,
\* and a poll tick that still fires (at any later time, with any reading)
\* changes neither voiceState nor the timestamps and issues no command to
\* the encoder, until streaming is started again.
C12_StopSilencesPollLoop ==
  ~ac.streamingMode =>
    /\ ~ac.vadInterval
    /\ \A rms \in RmsLevels :
         /\ LoopState(vadLoop(ac, rms)) = LoopState(ac)
         /\ LoopState(vadLoop([ac EXCEPT !.clock = @ + cfg.VAD_POLL_INTERVAL_MS],
                              rms)) = LoopState(ac)

\* streaming was stopped while a recording was in progress and an interval
\* timer is still alive
C12_Witness ==
  /\ ~ac.streamingMode /\ ~vc.isStreamingMode
  /\ ac.timers > 0
  /\ \E e \in Pending : e.end = "stop"

\* VoiceController.stopStreamingMode() as a function of the controller and
\* the capture object
VoiceControllerStop(v, a) ==
  IF ~v.isStreamingMode THEN <<v, a>>
  ELSE <<MarkStale(deactivate([v EXCEPT !.isStreamingMode = FALSE])),
         stopStreamingMode(a)>>

\* C13: stop is idempotent and a no-op without a started session: on a
\* session that is not started (never started or already stopped) it changes
\* no field and queues no encoder event, at the controller and at the capture
\* object, and stopping twice leaves the state of stopping once.
C13_StopIdempotent ==
  LET once  == VoiceControllerStop(vc, ac)
      twice == VoiceControllerStop(once[1], once[2])
  IN /\ twice = once
     /\ stopStreamingMode(stopStreamingMode(ac)) = stopStreamingMode(ac)
     /\ ~vc.isStreamingMode => once = <<vc, ac>>
     /\ ~vc.isStreamingMode => ~ac.streamingMode
     /\ ~ac.streamingMode => stopStreamingMode(ac) = ac

\* a session was started and stopped, its recording cut by the stop
C13_Witness ==
  /\ ~vc.isStreamingMode
  /\ \E c \in 1..MaxCalls : calls[c].outcome = "started"
  /\ ac.mediaRecorder = "inactive"
  /\ ac.recSeq > 0 /\ ac.cut[ac.recSeq] = "none"

C15_VoicedIffHeardSinceCut ==
  ac.streamingMode =>
    (ac.voiceState \in {"SPEAKING", "TRAILING_SILENCE"} <=> ac.heard)

\* a second utterance of the session is in its trailing silence, the first
\* one was cut by the poll loop
C15_Witness ==
  /\ ac.streamingMode
  /\ ac.voiceState = "TRAILING_SILENCE" /\ ac.heard
  /\ ac.recSeq >= 2 /\ ac.cut[1] # "none"

\* the time of tick k
T(k) == k * VAD_POLL_INTERVAL_MS

\* C16: scenario A (shipped constants; readings 0 for ticks 1-3, 0.05 for
\* ticks 4-6, 0 afterwards): the recording starts at tick 4 (200 ms),
\* TRAILING_SILENCE is entered at tick 7 (350 ms), the cut happens at tick 37
\* (1850 ms) and not earlier, and the cut is an emit.
C16_ScenarioA ==
  /\ ac.clock < T(4) =>
        ac.recSeq = 0 /\ ac.voiceState = "SILENT"
  /\ ac.clock >= T(4) => ac.recSeq = 1
  /\ (T(4) <= ac.clock /\ ac.clock < T(7)) =>
        /\ ac.voiceState = "SPEAKING" /\ ac.mediaRecorder = "recording"
        /\ ac.recordingStartTime = T(4) /\ ac.recStartedAt = T(4)
  /\ (T(7) <= ac.clock /\ ac.clock < T(37)) =>
        /\ ac.voiceState = "TRAILING_SILENCE"
        /\ ac.silenceStartTime = T(7) /\ ac.recordingStartTime = T(4)
        /\ ac.mediaRecorder = "recording" /\ ac.cut[1] = "none"
  /\ ac.clock >= T(37) =>
        /\ ac.voiceState = "SILENT" /\ ac.mediaRecorder = "inactive"
        /\ ac.cut[1] = "emit" /\ ac.suppressed = {}
        /\ \E e \in Pending \cup Delivered : e.id = 1 /\ e.end = "emit"

\* tick 37 of scenario A has fired and the segment was delivered
C16_Witness ==
  /\ ac.clock = T(37) /\ ac.cut[1] = "emit"
  /\ \E d \in Delivered : d.id = 1

\* C17: scenario C (shipped constants, speech at every tick for 16000 ms):
\* the forced emit occurs at the first tick at which 15000 ms have elapsed
\* since the recording started, voiceState is SILENT after that tick, and
\* the very next tick re-enters SPEAKING and starts a second recording with
\* a new recordingStartTime.
C17_ScenarioC ==
  LET start == T(1)
      forced == start + MAX_CHUNK_DURATION_MS
  IN
  /\ (start <= ac.clock /\ ac.clock < forced) =>
        /\ ac.voiceState = "SPEAKING" /\ ac.mediaRecorder = "recording"
        /\ ac.recSeq = 1 /\ ac.recordingStartTime = start
        /\ ac.cut[1] = "none"
  /\ ac.clock = forced =>
        /\ ac.voiceState = "SILENT" /\ ac.mediaRecorder = "inactive"
        /\ ac.recSeq = 1 /\ ac.recordingStartTime = Null
  /\ ac.clock >= forced =>
        /\ ac.cut[1] = "emit"
        /\ \E e \in Pending \cup Delivered : e.id = 1 /\ e.end = "emit"
  /\ ac.clock > forced =>
        /\ ac.voiceState = "SPEAKING" /\ ac.mediaRecorder = "recording"
        /\ ac.recSeq = 2
        /\ ac.recordingStartTime = forced + VAD_POLL_INTERVAL_MS
        /\ ac.recStartedAt = forced + VAD_POLL_INTERVAL_MS
        /\ ac.cut[2] = "none"

\* the tick after the forced emit has started the second recording
C17_Witness ==
  /\ ac.clock = T(1) + MAX_CHUNK_DURATION_MS + VAD_POLL_INTERVAL_MS
  /\ ac.recSeq = 2 /\ ac.voiceState = "SPEAKING"
  /\ ac.cut[1] = "emit"

\* C18: scenario B (shipped constants, speech for exactly one tick, then
\* silence): the recording is cut when the trailing silence reaches 1500 ms,
\* the time elapsed since the recording started is then 50 + 1500 = 1550 ms,
\* and the segment is emitted, not discarded.
C18_ScenarioB ==
  LET start == T(1)
      silence == T(2)
      cutAt == silence + TRAILING_SILENCE_MS
  IN
  /\ cutAt - start = VAD_POLL_INTERVAL_MS + TRAILING_SILENCE_MS
  /\ (silence <= ac.clock /\ ac.clock < cutAt) =>
        /\ ac.voiceState = "TRAILING_SILENCE"
        /\ ac.silenceStartTime = silence /\ ac.recordingStartTime = start
        /\ ac.mediaRecorder = "recording" /\ ac.cut[1] = "none"
  /\ ac.clock >= cutAt =>
        /\ ac.voiceState = "SILENT" /\ ac.recSeq = 1
        /\ ac.cut[1] = "emit" /\ ac.suppressed = {} /\ ~ac.suppressNextBlob
        /\ \E e \in Pending \cup Delivered :
              e.id = 1 /\ e.end = "emit" /\ ~e.short

\* the tick at 1600 ms of scenario B has fired and the segment was delivered
C18_Witness ==
  /\ ac.clock = T(2) + TRAILING_SILENCE_MS /\ ac.cut[1] = "emit"
  /\ \E d \in Delivered : d.id = 1 /\ d.blob = <<1>>

\* the rows of the transition table: <<from, condition, to, action>>, for a
\* tick that reads speech (or not) when rec has elapsed since the recording
\* started and sil since the silence started
TableRows(speech, rec, sil) ==
  {<<"SILENT", speech, "SPEAKING", "start">>,
   <<"SILENT", ~speech, "SILENT", "none">>,
   <<"SPEAKING", ~speech, "TRAILING_SILENCE", "none">>,
   <<"SPEAKING", speech /\ rec >= cfg.MAX_CHUNK_DURATION_MS,
     "SILENT", "emit">>,
   <<"SPEAKING", speech /\ rec < cfg.MAX_CHUNK_DURATION_MS,
     "SPEAKING", "none">>,
   <<"TRAILING_SILENCE", speech, "SPEAKING", "none">>,
   <<"TRAILING_SILENCE", ~speech /\ sil >= cfg.TRAILING_SILENCE_MS,
     "SILENT",
     IF rec >= cfg.MIN_CHUNK_DURATION_MS THEN "emit" ELSE "discard">>,
   <<"TRAILING_SILENCE", ~speech /\ rec >= cfg.MAX_CHUNK_DURATION_MS,
     "SILENT", "emit">>,
   <<"TRAILING_SILENCE",
     /\ ~speech
     /\ sil < cfg.TRAILING_SILENCE_MS
     /\ rec < cfg.MAX_CHUNK_DURATION_MS,
     "TRAILING_SILENCE", "none">>}

\* what a tick did, read off the state before and after it
TickAction(s, t) ==
  IF t.cut # s.cut THEN t.cut[t.recSeq]
  ELSE IF t.starts # s.starts THEN "start"
  ELSE "none"

\* C19: one vadLoop tick produces exactly the next state and action (none,
\* start recording, emit, discard) of the transition table, for every voice
\* state, reading and combination of elapsed times: some row applies and
\* every row that applies gives the tick's outcome; no tick moves SILENT to
\* TRAILING_SILENCE, and a TRAILING_SILENCE tick that reads non-speech when
\* the cap has elapsed emits.
C19_TickFollowsTable ==
  (ac.streamingMode /\ ac.analyserNode) =>
    \A rms \in RmsLevels :
      LET s == [ac EXCEPT !.clock = @ + cfg.VAD_POLL_INTERVAL_MS]
          t == vadLoop(s, rms)
          speech == rms >= cfg.SILENCE_THRESHOLD
          rec == s.clock - s.recordingStartTime
          sil == s.clock - s.silenceStartTime
          rows == {r \in TableRows(speech, rec, sil) :
                     r[1] = s.voiceState /\ r[2]}
      IN /\ rows # {}
         /\ \A r \in rows : <<t.voiceState, TickAction(s, t)>> = <<r[3], r[4]>>
         /\ ~(s.voiceState = "SILENT" /\ t.voiceState = "TRAILING_SILENCE")
         /\ (/\ s.voiceState = "TRAILING_SILENCE" /\ ~speech
             /\ rec >= cfg.MAX_CHUNK_DURATION_MS)
              => TickAction(s, t) = "emit"

\* the first tick after an enumerated state has taken the discard row: the
\* recording was in its trailing silence, the window had elapsed and the
\* minimum duration had not
C19_Witness ==
  /\ ac.clock = TableClock + VAD_POLL_INTERVAL_MS
  /\ ac.voiceState = "SILENT" /\ ac.cut[1] = "discard"
  /\ \E e \in Pending : e.id = 1 /\ e.end = "discard"

C21_TrailingCutAfterFullSilence ==
  (ac.streamingMode /\ ac.analyserNode /\ ac.voiceState = "TRAILING_SILENCE")
  => \A rms \in RmsLevels :
       LET s == [ac EXCEPT !.clock = @ + cfg.VAD_POLL_INTERVAL_MS]
           t == vadLoop(s, rms)
           u == vadLoop([t EXCEPT !.clock = @ + cfg.VAD_POLL_INTERVAL_MS], 0)
       IN /\ rms >= cfg.SILENCE_THRESHOLD =>
               /\ t.voiceState = "SPEAKING"
               /\ t.silenceStartTime = Null
               /\ t.recordingStartTime = s.recordingStartTime
               /\ t.cut = s.cut /\ t.tasks = s.tasks
               /\ t.mediaRecorder = s.mediaRecorder
               /\ u.voiceState = "TRAILING_SILENCE"
               /\ u.silenceStartTime = u.clock
          /\ (/\ t.cut # s.cut
              /\ \/ t.cut[t.recSeq] = "discard"
                 \/ s.clock - s.recordingStartTime < cfg.MAX_CHUNK_DURATION_MS)
             => /\ rms < cfg.SILENCE_THRESHOLD
                /\ s.quietSince # Null
                /\ s.clock - s.quietSince >= cfg.TRAILING_SILENCE_MS

\* a recording whose speech went on or resumed after its first two ticks is
\* in its trailing silence, and the next non-speech tick cuts it through the
\* trailing-silence branch
C21_Witness ==
  /\ ac.streamingMode /\ ac.analyserNode
  /\ ac.voiceState = "TRAILING_SILENCE"
  /\ ac.quietSince >= ac.recordingStartTime + 3 * cfg.VAD_POLL_INTERVAL_MS
  /\ ac.clock + cfg.VAD_POLL_INTERVAL_MS - ac.silenceStartTime
       >= cfg.TRAILING_SILENCE_MS
  /\ ac.clock + cfg.VAD_POLL_INTERVAL_MS - ac.recordingStartTime
       < cfg.MAX_CHUNK_DURATION_MS

\* C22: in every reachable state recordingStartTime is set exactly when
\* voiceState is SPEAKING or TRAILING_SILENCE and silenceStartTime is set
\* exactly when voiceState is TRAILING_SILENCE; an emit, a discard and stop()
\* each leave voiceState SILENT with both timestamps unset.
C22_TimestampsTrackVoiceState ==
  LET reset(s) == /\ s.voiceState = "SILENT"
                  /\ s.silenceStartTime = Null
                  /\ s.recordingStartTime = Null
  IN /\ ac.recordingStartTime # Null
          <=> ac.voiceState \in {"SPEAKING", "TRAILING_SILENCE"}
     /\ ac.silenceStartTime # Null <=> ac.voiceState = "TRAILING_SILENCE"
     /\ reset(sendCurrentChunk(ac))
     /\ reset(discardCurrentChunk(ac))
     /\ reset(stopStreamingMode(ac))

\* the poll loop has cut a recording that had been in its trailing silence:
\* the session is back in SILENT, its encoder stopped
C22_Witness ==
  /\ ac.streamingMode /\ ac.voiceState = "SILENT"
  /\ ac.recSeq >= 1 /\ ac.cut[ac.recSeq] # "none"
  /\ ac.mediaRecorder = "inactive"
  /\ ac.recordingStartTime = Null /\ ac.silenceStartTime = Null

\* C23: in every reachable state isRecording is true if and only if the
\* encoder is in the recording state, and if and only if voiceState is
\* SPEAKING or TRAILING_SILENCE.
C23_IsRecordingAgrees ==
  cfg = Shipped =>
    /\ ac.isRecording <=> ac.mediaRecorder = "recording"
    /\ ac.isRecording <=> ac.voiceState \in {"SPEAKING", "TRAILING_SILENCE"}

\* the calls of startStreamingMode that were made
Used == {c \in 1..MaxCalls : calls[c].pc # "unused"}

\* C24: a stop request is never lost to a start still in progress: when a
\* stop, or a second toggle, ran while a start was suspended at an await, and
\* every call has finished (no call was made besides the suspended ones and
\* that toggle), isStreamingMode is false and no poll timer runs.
C24_StopNotLost ==
  LET lost == {c \in Used : calls[c].overtakenBy # "none"}
      rest == Used \ lost
  IN (/\ cfg = Shipped
      /\ lost # {}
      /\ \A c \in Used : calls[c].pc = "done"
      /\ \A d \in rest :
           /\ calls[d].via = "toggleStreaming"
           /\ \E c \in lost : c < d /\ calls[c].overtakenBy = "toggle")
     => (~vc.isStreamingMode /\ ~ac.vadInterval /\ ac.timers = 0)

\* C25: after VoiceController.stopStreamingMode has run no command is
\* executed on a page element: domManipulator.executeCommand is never called
\* for a segment whose processAudioBlob call was suspended at an await when
\* a stop ran.
C25_NoCommandAfterStop ==
  cfg = Shipped => \A e \in vc.executed : ~e.stale

\* C26: in a session that is not stopped, whose poll ticks keep firing and
\* whose readings are non-speech from some tick on, every recording that was
\* started is eventually cut (emit or discard), and voiceState returns to
\* SILENT and stays there.
C26_EveryRecordingEventuallyCut ==
  <>[](/\ ac.voiceState = "SILENT"
       /\ \A r \in 1..MaxRecs : r <= ac.recSeq => ac.cut[r] # "none")

\* a recording begun at the last tick that may read speech was cut after the
\* session fell silent, under the shipped constants
C26_Witness ==
  /\ cfg = Shipped /\ ac.streamingMode
  /\ ac.voiceState = "SILENT"
  /\ ac.recSeq >= 1 /\ ac.cut[ac.recSeq] = "emit"
  /\ ac.clock = (QuietFrom + 1) * VAD_POLL_INTERVAL_MS + TRAILING_SILENCE_MS

\* C27: with the shipped constants (MIN_CHUNK_DURATION_MS 500 <=
\* TRAILING_SILENCE_MS 1500), and whenever the minimum duration does not
\* exceed the trailing silence, no cut is a discard: a tick that takes the
\* trailing-silence cut finds at least the trailing silence elapsed since
\* the recording started, and the cut is an emit.
C27_DiscardUnreachable ==
  /\ MIN_CHUNK_DURATION_MS <= TRAILING_SILENCE_MS
  /\ (cfg = Shipped \/ cfg.MIN_CHUNK_DURATION_MS <= cfg.TRAILING_SILENCE_MS) =>
       /\ \A r \in 1..MaxRecs : ac.cut[r] # "discard"
       /\ \A rms \in RmsLevels :
            LET s == [ac EXCEPT !.clock = @ + cfg.VAD_POLL_INTERVAL_MS]
                t == vadLoop(s, rms)
            IN (/\ s.streamingMode /\ s.analyserNode
                /\ s.voiceState = "TRAILING_SILENCE" /\ ~isSpeech(rms)
                /\ s.clock - s.silenceStartTime >= cfg.TRAILING_SILENCE_MS) =>
                 /\ s.clock - s.recordingStartTime >= cfg.TRAILING_SILENCE_MS
                 /\ t = sendCurrentChunk(Hear(s, rms))
                 /\ t.suppressNextBlob = s.suppressNextBlob

\* a trailing-silence cut was taken under the shipped constants, and under
\* the setting whose minimum duration equals the trailing silence after
\* speech at the first tick only
C27_Witness ==
  /\ ac.streamingMode /\ ac.voiceState = "SILENT"
  /\ ac.recSeq >= 1 /\ ac.cut[ac.recSeq] = "emit"
  /\ \/ /\ cfg = Shipped
        /\ ac.clock < MAX_CHUNK_DURATION_MS
     \/ /\ cfg = Balanced /\ ac.recSeq = 1
        /\ ac.clock = T(1) + cfg.VAD_POLL_INTERVAL_MS + cfg.TRAILING_SILENCE_MS

\* C28: the session's resources exist only while streaming is active: after
\* stop() the poll timer is cancelled, the analysis graph (audioContext,
\* analyserNode) is released, and the microphone stream and the encoder
\* acquired for the session are released as well.
C28_ResourcesReleasedAfterStop ==
  LET t == stopStreamingMode(ac)
  IN ac.streamingMode =>
       /\ ~t.streamingMode
       /\ ~t.vadInterval
       /\ ~t.audioContext /\ ~t.analyserNode
       /\ ~t.micStream /\ t.mediaRecorder = "null"

\* C29: after every encoder completion event (onstop) the fragment buffer
\* audioChunks is empty, whether the segment was delivered or suppressed, so
\* no fragment of a finished recording is buffered when the fragments of the
\* next recording arrive.
C29_BufferEmptyAfterCompletion ==
  /\ ac.audioChunks = <<>>
  /\ ac.tasks # <<>> =>
       LET t == onstop(ac)
       IN /\ t.audioChunks = <<>>
          /\ t.tasks = Tail(ac.tasks)
          /\ \/ Head(ac.tasks).id \in t.suppressed
             \/ Len(t.delivered) = Len(ac.delivered) + 1
             \/ ~ac.processCallback

\* one recording was delivered, another one suppressed, and a later
\* recording is in progress
C29_Witness ==
  /\ Len(ac.delivered) >= 1 /\ ac.suppressed # {}
  /\ ac.audioChunks = <<>>
  /\ ac.mediaRecorder = "recording"
  /\ ac.recSeq > Len(ac.delivered) + Cardinality(ac.suppressed)

\* C30: startRecording() called when the encoder is already recording or
\* when no encoder exists raises no exception and changes no recording
\* state: the encoder state, isRecording and the fragment buffer stay as
\* they were (and so does everything else but the count of calls).
C30_RefusedStartChangesNothing ==
  ac.mediaRecorder \in {"null", "recording"} =>
    LET t == startRecording(ac)
    IN /\ t.mediaRecorder = ac.mediaRecorder
       /\ t.isRecording = ac.isRecording
       /\ t.audioChunks = ac.audioChunks
       /\ t.tasks = ac.tasks /\ t.recSeq = ac.recSeq
       /\ t = [ac EXCEPT !.starts = @ + 1]

\* a tick has called startRecording on an encoder that was already
\* recording, and the recording goes on
C30_Witness ==
  /\ ac.starts > ac.recSeq
  /\ ac.mediaRecorder = "recording" /\ ac.isRecording
  /\ ac.voiceState = "SPEAKING"

\* C31: in the fixed-interval loop each recording cycle is started only
\* after the previous cycle has completed: a timer callback of the chain
\* starts the next recording, or arms the next cycle timer, only when the
\* completion event of the previous cycle's encoder stop has been handled.
C31_CycleAfterCompletion ==
  \A tm \in Due :
    LET t == IF tm.kind = "restart" THEN restartCallback(ac, tm)
             ELSE cycleCallback(ac, tm)
    IN (\/ t.recSeq > ac.recSeq
        \/ \E n \in t.timers : n.kind = "cycle" /\ n.id >= ac.nextId) =>
         ac.tasks = <<>>

\* C32: in the fixed-interval loop at most one cycle chain is alive at any
\* time: there are never two pending cycle timers, and a timer of a chain
\* whose session was stopped neither restarts recording nor arms a timer.
C32_OneCycleChain ==
  /\ Cardinality({tm \in ac.timers : tm.kind = "cycle"}) <= 1
  /\ \A tm \in Due :
       tm.chain # ac.session =>
         LET t == IF tm.kind = "restart" THEN restartCallback(ac, tm)
                  ELSE cycleCallback(ac, tm)
         IN /\ t.recSeq = ac.recSeq
            /\ t.mediaRecorder = ac.mediaRecorder
            /\ t.nextId = ac.nextId

====
